---- MODULE Spec2Model ----
(***************************************************************************)
(* Model of the input manager of intele (package intele, src/errors.go,    *)
(* which holds errors.go followed by the current input.go) and of its      *)
(* default state storage (src/storage/storage.go).                         *)
(*                                                                         *)
(* Every goroutine is a thread of the model: the callers of Get, the       *)
(* dispatcher's handler invocations and the callers of Cancel.  One step   *)
(* of a thread is one atomic operation of the code: one sync.Map call, one *)
(* storage call, one critical section of a pendingRequest's mutex, one     *)
(* evaluation of the select statement, one reading of the clock.           *)
(***************************************************************************)
EXTENDS Integers, Sequences, FiniteSets, TLC

(* ---------------------------------------------------------------------- *)
(* Bounds and input sets                                                   *)
(* ---------------------------------------------------------------------- *)

\* largest value of time.Since(start) the model distinguishes
MaxElapsed == 2
\* number of Get calls, handler invocations and Cancel calls, taken together, of
\* one behaviour
MaxOps == 4
\* the same, of one behaviour the temporal properties are checked on
FairOps == 2

\* number of handler invocations and Cancel calls, taken together, of one
\* behaviour with two callers of Get
OverlapEvents == 1

\* number of Get calls, handler invocations and Cancel calls, taken together, of
\* one behaviour with two handler invocations at a time
RaceOps == 3

\* number of events and calls of Cancel, taken together, of one behaviour in
\* which two users are served
UsersEvents == 1

\* the keys of the registry and of the state storage; OneUser is the user of
\* the behaviours in which a single user is served
Users == {"u1", "u2"}
OneUser == {"u1"}
Getters == {"g1", "g2"}
Handlers == {"h1", "h2"}
Cancellers == {"c1"}

\* timeout arguments of Get: 0 waits indefinitely
Timeouts == {0, 1}

\* a nil pointer, a nil error, an absent map entry
Nil == "nil"

\* characters of the strings the matching rule reads; FF is the form feed
\* telebot puts in front of a button's unique, SP a blank
FF == "ff"
SP == "sp"
Whitespace == {FF, SP}

\* the *tele.Message values: m1 is a text message of the user, m2 the message of
\* the bot that carries the buttons
Messages == {"m1"}

\* the *tele.Callback values of the inbound callback events, by name: cb3 has a
\* Unique, so its Data is not looked at
Callback ==
    [ cb1 |-> [Unique |-> <<"a">>,     Data |-> <<>>,                      Message |-> "m2"],
      cb2 |-> [Unique |-> <<>>,        Data |-> <<SP, "b", SP, "|", "a">>, Message |-> Nil],
      cb3 |-> [Unique |-> <<SP, "c">>, Data |-> <<"a", "|", "b">>,         Message |-> "m2"] ]

CallbackEvents == DOMAIN Callback

\* the callback ...tele.CallbackEndpoint arguments of Get, each endpoint given by
\* the string its CallbackUnique() returns (telebot puts a form feed in front)
CallbackLists ==
    { <<>>,
      << <<FF, "a">>, <<FF, "b", SP>> >> }

(* ---------------------------------------------------------------------- *)
(* Constants of the program                                                *)
(* ---------------------------------------------------------------------- *)

stateWaitingInput == "waiting_input"
ErrTimeout == "input timeout"
ErrStorage == "storage error"
CtxErrors == {"context canceled", "context deadline exceeded"}

(* ---------------------------------------------------------------------- *)
(* strings.TrimSpace and strings.Split(s, "|")[0]                          *)
(* ---------------------------------------------------------------------- *)

RECURSIVE TrimLeft(_)
TrimLeft(s) ==
    IF s # <<>> /\ Head(s) \in Whitespace THEN TrimLeft(Tail(s)) ELSE s

RECURSIVE TrimRight(_)
TrimRight(s) ==
    IF s # <<>> /\ s[Len(s)] \in Whitespace
    THEN TrimRight(SubSeq(s, 1, Len(s) - 1))
    ELSE s

TrimSpace(s) == TrimRight(TrimLeft(s))

RECURSIVE SplitFirst(_)
SplitFirst(s) ==
    IF s = <<>> \/ Head(s) = "|" THEN <<>> ELSE <<Head(s)>> \o SplitFirst(Tail(s))

(* ---------------------------------------------------------------------- *)
(* State                                                                   *)
(* ---------------------------------------------------------------------- *)

\* the addresses of the pendingRequest values; NilReq is the nil pointer and the
\* absent entry of the sync.Map.  A value is live while the map or a goroutine
\* refers to it, so there are never more live values than these addresses.
NilReq == 0
ReqIds == 1 .. (Cardinality(Users) + Cardinality(Getters) + Cardinality(Handlers)
                  + Cardinality(Cancellers))

VARIABLES
    requests,   \* InputManager.requests: userID -> address of a pendingRequest, or Nil
    storage,    \* MemoryStorage.store: userID -> state, or Nil when the key is absent
    heap,       \* the pendingRequest values, by address
    get,        \* the goroutines calling Get: position, arguments, locals, results
    hnd,        \* the handler invocations of the dispatcher
    can,        \* the goroutines calling Cancel
    ncalls,     \* Get calls made so far
    nevents,    \* handler invocations made so far
    ncancels    \* Cancel calls made so far

vars == <<requests, storage, heap, get, hnd, can, ncalls, nevents, ncancels>>

\* &pendingRequest{callbacks: callback}
pendingRequest(callback) ==
    [message |-> Nil, callback |-> Nil, completed |-> FALSE, canceled |-> FALSE,
     callbacks |-> callback]

\* Response{}
Response(message, callback, canceled) ==
    [Message |-> message, Callback |-> callback, Canceled |-> canceled]

NoResponse == Response(Nil, Nil, FALSE)

GetIdle ==
    [pc |-> "idle", userID |-> Nil, timeout |-> 0, callback |-> <<>>, ctxErr |-> Nil,
     req |-> NilReq, elapsed |-> 0, response |-> NoResponse, err |-> Nil]

HandlerIdle ==
    [pc |-> "idle", kind |-> Nil, userID |-> Nil, message |-> Nil, callback |-> Nil,
     req |-> NilReq]

\* waiting is not state of the program: it records whether the request Cancel
\* loaded was the one of a call of Get that was in its wait loop then
CancelIdle == [pc |-> "idle", userID |-> Nil, req |-> NilReq, waiting |-> FALSE]

\* NewInputManager with the default storage.NewMemoryStorage()
Init ==
    /\ requests = [u \in Users |-> NilReq]
    /\ storage = [u \in Users |-> Nil]
    /\ heap = [r \in ReqIds |-> pendingRequest(<<>>)]
    /\ get = [g \in Getters |-> GetIdle]
    /\ hnd = [h \in Handlers |-> HandlerIdle]
    /\ can = [c \in Cancellers |-> CancelIdle]
    /\ ncalls = 0
    /\ nevents = 0
    /\ ncancels = 0

(* ---------------------------------------------------------------------- *)
(* storage.MemoryStorage                                                   *)
(* ---------------------------------------------------------------------- *)

\* MemoryStorage.Set: m.store[userID] = state
StorageSet(store, userID, state) == [store EXCEPT ![userID] = state]

\* MemoryStorage.Get: "" for an absent key
StorageGet(store, userID) == IF store[userID] = Nil THEN "" ELSE store[userID]

\* a Delete that empties the map: m.store = make(map[int64]string)
StorageDelete_AllUsers(store, userID) == [u \in DOMAIN store |-> Nil]

\* MemoryStorage.Delete: delete(m.store, userID)
StorageDelete(store, userID) == [store EXCEPT ![userID] = Nil]

\* the addresses the map or a goroutine refers to
Live(reg, gt, hd, cn) ==
    ({reg[u] : u \in Users} \cup {gt[g].req : g \in Getters}
        \cup {hd[h].req : h \in Handlers} \cup {cn[c].req : c \in Cancellers}) \ {NilReq}

\* the garbage collector: a value nothing refers to is gone, its address is free
\* and reads as a zero value again
Collect(hp, reg, gt, hd, cn) ==
    [r \in ReqIds |-> IF r \in Live(reg, gt, hd, cn) THEN hp[r] ELSE pendingRequest(<<>>)]

\* the address of a new pendingRequest: a free one
NewReq ==
    CHOOSE r \in ReqIds \ Live(requests, get, hnd, can) :
        \A q \in ReqIds \ Live(requests, get, hnd, can) : r <= q

\* what the caller of Get is left with when the call has returned: the results
Returned(gr) ==
    [GetIdle EXCEPT !.pc = "done", !.userID = gr.userID, !.response = gr.response,
                    !.err = gr.err]

\* h.requests.LoadOrStore(userID, req) in the place of Store: an entry stays
RegistryStore_KeepExisting(reg, userID, req) ==
    IF reg[userID] = NilReq THEN [reg EXCEPT ![userID] = req] ELSE reg

\* sync.Map: h.requests.Store(userID, req)
RegistryStore(reg, userID, req) == [reg EXCEPT ![userID] = req]

\* sync.Map: h.requests.Delete(userID)
RegistryDelete(reg, userID) == [reg EXCEPT ![userID] = NilReq]

(* ---------------------------------------------------------------------- *)
(* Get                                                                     *)
(* ---------------------------------------------------------------------- *)

\* a call of Get is in progress
Calling(g) == get[g].pc \notin {"idle", "done"}

\* a call of Get for the user is outstanding
Outstanding(u) == \E g \in Getters : Calling(g) /\ get[g].userID = u

\* a handler invocation or a call of Cancel for the user is in progress
Busy(u) ==
    \/ \E h \in Handlers : hnd[h].pc # "idle" /\ hnd[h].userID = u
    \/ \E c \in Cancellers : can[c].pc # "idle" /\ can[c].userID = u

\* a caller enters Get(ctx, userID, timeout, callback...) with a live context
GetCall(g, u, t, cbs) ==
    /\ get[g].pc \in {"idle", "done"}
    /\ ncalls' = ncalls + 1
    /\ get' = [get EXCEPT ![g] =
                  [GetIdle EXCEPT !.pc = "store", !.userID = u, !.timeout = t,
                                  !.callback = cbs]]
    /\ UNCHANGED <<requests, storage, heap, hnd, can, nevents, ncancels>>

\* Get taking the request of the registry when there is one, as the handlers do:
\* value, _ := h.requests.LoadOrStore(userID, req); req = value
GetStore_LoadOrStore(g) ==
    /\ get[g].pc = "store"
    /\ IF requests[get[g].userID] # NilReq
       THEN /\ get' = [get EXCEPT ![g].req = requests[get[g].userID], ![g].pc = "set"]
            /\ UNCHANGED <<requests, heap>>
       ELSE LET r == NewReq IN
               /\ requests' = RegistryStore(requests, get[g].userID, r)
               /\ get' = [get EXCEPT ![g].req = r, ![g].pc = "set"]
               /\ heap' = [heap EXCEPT ![r] = pendingRequest(get[g].callback)]
    /\ UNCHANGED <<storage, hnd, can, ncalls, nevents, ncancels>>

\* req := &pendingRequest{callbacks: callback}; h.requests.Store(userID, req)
GetStore(g) ==
    /\ get[g].pc = "store"
    /\ LET r == NewReq IN
          /\ requests' = RegistryStore(requests, get[g].userID, r)
          /\ get' = [get EXCEPT ![g].req = r, ![g].pc = "set"]
          /\ heap' = Collect([heap EXCEPT ![r] = pendingRequest(get[g].callback)],
                             requests', get', hnd, can)
    /\ UNCHANGED <<storage, hnd, can, ncalls, nevents, ncancels>>

\* h.storage.Set(userID, stateWaitingInput, timeout): the write succeeds, or a
\* storage that can fail returns an error and writes nothing
GetSet(g) ==
    /\ get[g].pc = "set"
    /\ \/ /\ storage' = StorageSet(storage, get[g].userID, stateWaitingInput)
          /\ get' = [get EXCEPT ![g].pc = "select", ![g].elapsed = 0]
       \/ /\ storage' = storage
          /\ get' = [get EXCEPT ![g].pc = "failDelete", ![g].err = ErrStorage]
    /\ UNCHANGED <<requests, heap, hnd, can, ncalls, nevents, ncancels>>

\* the failed write returning the error and leaving the entry in the registry
GetFailDelete_NoDelete(g) ==
    /\ get[g].pc = "failDelete"
    /\ get' = [get EXCEPT ![g] = Returned([@ EXCEPT !.response = NoResponse])]
    /\ heap' = Collect(heap, requests, get', hnd, can)
    /\ UNCHANGED <<requests, storage, hnd, can, ncalls, nevents, ncancels>>

\* h.requests.Delete(userID); return Response{}, err
GetFailDelete(g) ==
    /\ get[g].pc = "failDelete"
    /\ requests' = RegistryDelete(requests, get[g].userID)
    /\ get' = [get EXCEPT ![g] = Returned([@ EXCEPT !.response = NoResponse])]
    /\ heap' = Collect(heap, requests', get', hnd, can)
    /\ UNCHANGED <<storage, hnd, can, ncalls, nevents, ncancels>>

\* the poll looking at req.completed before ctx.Done()
GetSelect_CompletedFirst(g) ==
    /\ get[g].pc = "select"
    /\ IF heap[get[g].req].completed
       THEN get' = [get EXCEPT ![g].pc = "deferStorage",
                               ![g].response = Response(heap[get[g].req].message,
                                                        heap[get[g].req].callback,
                                                        heap[get[g].req].canceled),
                               ![g].err = Nil]
       ELSE IF get[g].ctxErr # Nil
            THEN get' = [get EXCEPT ![g].pc = "deferStorage",
                                    ![g].response = Response(Nil, Nil, TRUE),
                                    ![g].err = get[g].ctxErr]
            ELSE get' = [get EXCEPT ![g].pc = "locked"]
    /\ UNCHANGED <<requests, storage, heap, hnd, can, ncalls, nevents, ncancels>>

\* the select looking at ctx.Done() only in a call without timeout
GetSelect_NoTimeoutOnly(g) ==
    /\ get[g].pc = "select"
    /\ IF get[g].ctxErr # Nil /\ get[g].timeout = 0
       THEN get' = [get EXCEPT ![g].pc = "deferStorage",
                               ![g].response = Response(Nil, Nil, TRUE),
                               ![g].err = get[g].ctxErr]
       ELSE get' = [get EXCEPT ![g].pc = "locked"]
    /\ UNCHANGED <<requests, storage, heap, hnd, can, ncalls, nevents, ncancels>>

\* select { case <-ctx.Done(): return Response{Canceled: true}, ctx.Err(); default: }
GetSelect(g) ==
    /\ get[g].pc = "select"
    /\ IF get[g].ctxErr # Nil
       THEN get' = [get EXCEPT ![g].pc = "deferStorage",
                               ![g].response = Response(Nil, Nil, TRUE),
                               ![g].err = get[g].ctxErr]
       ELSE get' = [get EXCEPT ![g].pc = "locked"]
    /\ UNCHANGED <<requests, storage, heap, hnd, can, ncalls, nevents, ncancels>>

\* the Response built from a completed request
CompletedResponse(req) == Response(req.message, req.callback, req.canceled)

\* req.mu.Lock(); if req.completed { ... return response, nil }; req.mu.Unlock()
GetLocked(g) ==
    /\ get[g].pc = "locked"
    /\ IF heap[get[g].req].completed
       THEN get' = [get EXCEPT ![g].pc = "deferStorage",
                               ![g].response = CompletedResponse(heap[get[g].req]),
                               ![g].err = Nil]
       ELSE get' = [get EXCEPT ![g].pc = "since"]
    /\ UNCHANGED <<requests, storage, heap, hnd, can, ncalls, nevents, ncancels>>

\* the timeout test without timeout > 0
TimedOut_ZeroIncluded(timeout, elapsed) == elapsed > timeout

\* the timeout test with its first comparison turned round
TimedOut_Unset(timeout, elapsed) == timeout = 0 /\ elapsed > timeout

\* timeout > 0 && time.Since(start) > timeout
TimedOut(timeout, elapsed) == timeout > 0 /\ elapsed > timeout

\* if timeout > 0 && time.Since(start) > timeout { return Response{}, ErrTimeout };
\* time.Sleep(100 * time.Millisecond).  The clock is read here and nowhere else,
\* and only when timeout > 0: time.Since(start) is what it was at the last
\* reading, or more.
GetSince(g) ==
    /\ get[g].pc = "since"
    /\ \E now \in get[g].elapsed .. MaxElapsed :
          IF TimedOut(get[g].timeout, now)
          THEN get' = [get EXCEPT ![g].pc = "deferStorage",
                                  ![g].response = NoResponse,
                                  ![g].err = ErrTimeout]
          ELSE get' = [get EXCEPT ![g].pc = "select",
                                  ![g].elapsed = IF get[g].timeout > 0 THEN now ELSE @]
    /\ UNCHANGED <<requests, storage, heap, hnd, can, ncalls, nevents, ncancels>>

\* the deferred cleanup without h.storage.Delete(userID)
GetDeferStorage_NoDelete(g) ==
    /\ get[g].pc = "deferStorage"
    /\ get' = [get EXCEPT ![g].pc = "deferRequests"]
    /\ UNCHANGED <<requests, storage, heap, hnd, can, ncalls, nevents, ncancels>>

\* deferred: h.storage.Delete(userID)
GetDeferStorage(g) ==
    /\ get[g].pc = "deferStorage"
    /\ storage' = StorageDelete(storage, get[g].userID)
    /\ get' = [get EXCEPT ![g].pc = "deferRequests"]
    /\ UNCHANGED <<requests, heap, hnd, can, ncalls, nevents, ncancels>>

\* deferred: h.requests.Delete(userID); the call returns
GetDeferRequests(g) ==
    /\ get[g].pc = "deferRequests"
    /\ requests' = RegistryDelete(requests, get[g].userID)
    /\ get' = [get EXCEPT ![g] = Returned(@)]
    /\ heap' = Collect(heap, requests', get', hnd, can)
    /\ UNCHANGED <<storage, hnd, can, ncalls, nevents, ncancels>>

\* the caller's context is canceled, or its deadline passes
CtxDone(g, e) ==
    /\ get[g].pc \notin {"idle", "done"}
    /\ get[g].ctxErr = Nil
    /\ get' = [get EXCEPT ![g].ctxErr = e]
    /\ UNCHANGED <<requests, storage, heap, hnd, can, ncalls, nevents, ncancels>>

(* ---------------------------------------------------------------------- *)
(* MessageHandler and CallbackHandler                                      *)
(* ---------------------------------------------------------------------- *)

\* the dispatcher invokes the OnText handler: c.Message() is m, c.Sender().ID is u
MessageEvent(h, u, m) ==
    /\ hnd[h].pc = "idle"
    /\ nevents' = nevents + 1
    /\ hnd' = [hnd EXCEPT ![h] =
                  [HandlerIdle EXCEPT !.pc = "check", !.kind = "message",
                                      !.userID = u, !.message = m]]
    /\ UNCHANGED <<requests, storage, heap, get, can, ncalls, ncancels>>

\* the dispatcher invokes the OnCallback handler: c.Callback() is cb, and
\* c.Message() is the message the button was attached to
CallbackEvent(h, u, cb) ==
    /\ hnd[h].pc = "idle"
    /\ nevents' = nevents + 1
    /\ hnd' = [hnd EXCEPT ![h] =
                  [HandlerIdle EXCEPT !.pc = "check", !.kind = "callback",
                                      !.userID = u, !.callback = cb,
                                      !.message = Callback[cb].Message]]
    /\ UNCHANGED <<requests, storage, heap, get, can, ncalls, ncancels>>

\* state, err := h.storage.Get(userID); err != nil || state != stateWaitingInput
NotWaiting(store, userID) == StorageGet(store, userID) # stateWaitingInput

\* if c.Message() == nil { return nil }; the check of the user's state
MessageHandlerCheck(h) ==
    /\ hnd[h].pc = "check"
    /\ hnd[h].kind = "message"
    /\ IF hnd[h].message = Nil \/ NotWaiting(storage, hnd[h].userID)
       THEN hnd' = [hnd EXCEPT ![h] = HandlerIdle]
       ELSE hnd' = [hnd EXCEPT ![h].pc = "loadOrStore"]
    /\ UNCHANGED <<requests, storage, heap, get, can, ncalls, nevents, ncancels>>

\* the check of the user's state in CallbackHandler
CallbackHandlerCheck(h) ==
    /\ hnd[h].pc = "check"
    /\ hnd[h].kind = "callback"
    /\ IF NotWaiting(storage, hnd[h].userID)
       THEN hnd' = [hnd EXCEPT ![h] = HandlerIdle]
       ELSE hnd' = [hnd EXCEPT ![h].pc = "loadOrStore"]
    /\ UNCHANGED <<requests, storage, heap, get, can, ncalls, nevents, ncancels>>

\* value, _ := h.requests.LoadOrStore(userID, &pendingRequest{})
HandlerLoadOrStore(h) ==
    /\ hnd[h].pc = "loadOrStore"
    /\ IF requests[hnd[h].userID] # NilReq
       THEN /\ hnd' = [hnd EXCEPT ![h].req = requests[hnd[h].userID], ![h].pc = "write"]
            /\ UNCHANGED <<requests, heap>>
       ELSE LET r == NewReq IN
               /\ heap' = [heap EXCEPT ![r] = pendingRequest(<<>>)]
               /\ requests' = RegistryStore(requests, hnd[h].userID, r)
               /\ hnd' = [hnd EXCEPT ![h].req = r, ![h].pc = "write"]
    /\ UNCHANGED <<storage, get, can, ncalls, nevents, ncancels>>

\* the handler that takes a text only for a request without callback endpoints
MessageWrite_NoEndpoints(req, m) ==
    IF req.callbacks = <<>> THEN [req EXCEPT !.message = m, !.completed = TRUE] ELSE req

\* the handler that stores the message and forgets req.completed = true
MessageWrite_NotCompleted(req, m) == [req EXCEPT !.message = m]

\* req.message = c.Message(); req.completed = true
MessageWrite(req, m) == [req EXCEPT !.message = m, !.completed = TRUE]

\* the critical section of MessageHandler
MessageHandlerWrite(h) ==
    /\ hnd[h].pc = "write"
    /\ hnd[h].kind = "message"
    /\ heap' = [heap EXCEPT ![hnd[h].req] = MessageWrite(@, hnd[h].message)]
    /\ hnd' = [hnd EXCEPT ![h].pc = "delete"]
    /\ UNCHANGED <<requests, storage, get, can, ncalls, nevents, ncancels>>

\* the unique taken from the callback without strings.TrimSpace
CallbackUnique_NoTrim(cb) ==
    IF Callback[cb].Unique = <<>> THEN SplitFirst(Callback[cb].Data) ELSE Callback[cb].Unique

\* the unique of the callback: its Unique, or the first "|" segment of its Data
CallbackUnique(cb) ==
    IF Callback[cb].Unique = <<>>
    THEN TrimSpace(SplitFirst(Callback[cb].Data))
    ELSE TrimSpace(Callback[cb].Unique)

\* the matching with an empty list of endpoints accepting every callback
CallbackValid_Wildcard(callbacks, cb) ==
    \/ callbacks = <<>>
    \/ \E i \in 1 .. Len(callbacks) : TrimSpace(callbacks[i]) = CallbackUnique(cb)

\* for _, cb := range req.callbacks: strings.TrimSpace(cb.CallbackUnique()) == unique
CallbackValid(callbacks, cb) ==
    \E i \in 1 .. Len(callbacks) : TrimSpace(callbacks[i]) = CallbackUnique(cb)

\* req.callback = c.Callback(); req.message = c.Message(); req.completed = true
CallbackWrite(req, cb, m) ==
    [req EXCEPT !.callback = cb, !.message = m, !.completed = TRUE]

\* the loop over req.callbacks: on the first valid one the critical section, else return nil
CallbackHandlerWrite(h) ==
    /\ hnd[h].pc = "write"
    /\ hnd[h].kind = "callback"
    /\ IF CallbackValid(heap[hnd[h].req].callbacks, hnd[h].callback)
       THEN /\ heap' = [heap EXCEPT ![hnd[h].req] =
                           CallbackWrite(@, hnd[h].callback, hnd[h].message)]
            /\ hnd' = [hnd EXCEPT ![h].pc = "delete"]
       ELSE /\ hnd' = [hnd EXCEPT ![h] = HandlerIdle]
            /\ heap' = Collect(heap, requests, get, hnd', can)
    /\ UNCHANGED <<requests, storage, get, can, ncalls, nevents, ncancels>>

\* h.storage.Delete(userID); return nil
HandlerDelete(h) ==
    /\ hnd[h].pc = "delete"
    /\ storage' = StorageDelete(storage, hnd[h].userID)
    /\ hnd' = [hnd EXCEPT ![h] = HandlerIdle]
    /\ heap' = Collect(heap, requests, get, hnd', can)
    /\ UNCHANGED <<requests, get, can, ncalls, nevents, ncancels>>

(* ---------------------------------------------------------------------- *)
(* Cancel                                                                  *)
(* ---------------------------------------------------------------------- *)

\* a caller enters Cancel(userID)
CancelCall(c, u) ==
    /\ can[c].pc = "idle"
    /\ ncancels' = ncancels + 1
    /\ can' = [can EXCEPT ![c] = [CancelIdle EXCEPT !.pc = "load", !.userID = u]]
    /\ UNCHANGED <<requests, storage, heap, get, hnd, ncalls, nevents>>

\* Cancel clearing the state of the user also when it finds no request
CancelLoad_ClearsState(c) ==
    /\ can[c].pc = "load"
    /\ IF requests[can[c].userID] = NilReq
       THEN /\ can' = [can EXCEPT ![c] = CancelIdle]
            /\ storage' = StorageDelete(storage, can[c].userID)
       ELSE /\ can' = [can EXCEPT ![c].req = requests[can[c].userID], ![c].pc = "lock",
                                  ![c].waiting =
                                      \E g \in Getters :
                                          /\ get[g].req = requests[can[c].userID]
                                          /\ get[g].pc \in {"select", "locked", "since"}]
            /\ storage' = storage
    /\ UNCHANGED <<requests, heap, get, hnd, ncalls, nevents, ncancels>>

\* value, ok := h.requests.Load(userID); if !ok { return }
CancelLoad(c) ==
    /\ can[c].pc = "load"
    /\ IF requests[can[c].userID] = NilReq
       THEN can' = [can EXCEPT ![c] = CancelIdle]
       ELSE can' = [can EXCEPT ![c].req = requests[can[c].userID], ![c].pc = "lock",
                               ![c].waiting =
                                   \E g \in Getters :
                                       /\ get[g].req = requests[can[c].userID]
                                       /\ get[g].pc \in {"select", "locked", "since"}]
    /\ UNCHANGED <<requests, storage, heap, get, hnd, ncalls, nevents, ncancels>>

\* the critical section of Cancel without req.completed = true
CancelWrite_NotCompleted(req) == [req EXCEPT !.canceled = TRUE]

\* Cancel leaving a request alone that is completed already
CancelWrite_IfNotCompleted(req) ==
    IF req.completed THEN req ELSE [req EXCEPT !.canceled = TRUE, !.completed = TRUE]

\* the critical section of Cancel without req.canceled = true
CancelWrite_NotCanceled(req) == [req EXCEPT !.completed = TRUE]

\* req.canceled = true; req.completed = true
CancelWrite(req) == [req EXCEPT !.canceled = TRUE, !.completed = TRUE]

\* the critical section of Cancel
CancelLock(c) ==
    /\ can[c].pc = "lock"
    /\ heap' = [heap EXCEPT ![can[c].req] = CancelWrite(@)]
    /\ can' = [can EXCEPT ![c].pc = "storageDelete"]
    /\ UNCHANGED <<requests, storage, get, hnd, ncalls, nevents, ncancels>>

\* h.storage.Delete(userID)
CancelStorageDelete(c) ==
    /\ can[c].pc = "storageDelete"
    /\ storage' = StorageDelete(storage, can[c].userID)
    /\ can' = [can EXCEPT ![c].pc = "requestsDelete"]
    /\ UNCHANGED <<requests, heap, get, hnd, ncalls, nevents, ncancels>>

\* h.requests.Delete(userID); Cancel returns
CancelRequestsDelete(c) ==
    /\ can[c].pc = "requestsDelete"
    /\ requests' = RegistryDelete(requests, can[c].userID)
    /\ can' = [can EXCEPT ![c] = CancelIdle]
    /\ heap' = Collect(heap, requests', get, hnd, can')
    /\ UNCHANGED <<storage, get, hnd, ncalls, nevents, ncancels>>

(* ---------------------------------------------------------------------- *)
(* Specifications                                                          *)
(* ---------------------------------------------------------------------- *)

GetStep(g) ==
    \/ GetStore(g)
    \/ GetSet(g)
    \/ GetFailDelete(g)
    \/ GetSelect(g)
    \/ GetLocked(g)
    \/ GetSince(g)
    \/ GetDeferStorage(g)
    \/ GetDeferRequests(g)

HandlerStep(h) ==
    \/ MessageHandlerCheck(h)
    \/ CallbackHandlerCheck(h)
    \/ HandlerLoadOrStore(h)
    \/ MessageHandlerWrite(h)
    \/ CallbackHandlerWrite(h)
    \/ HandlerDelete(h)

CancelStep(c) ==
    \/ CancelLoad(c)
    \/ CancelLock(c)
    \/ CancelStorageDelete(c)
    \/ CancelRequestsDelete(c)

\* what the callers and the dispatcher pass in: the users served, the timeouts
\* and the lists of endpoints of the calls of Get, the ways a context ends, the
\* messages and the callbacks of the events
AllInputs ==
    [users |-> OneUser, timeouts |-> Timeouts, callbacks |-> CallbackLists, ctxErrors |-> CtxErrors,
     messages |-> Messages \cup {Nil}, events |-> CallbackEvents]

\* the steps of a program in which the goroutines G call Get, the dispatcher
\* runs the handler invocations H and the goroutines C call Cancel, with the
\* inputs in and at most calls, events and cancels of them in one behaviour
NextOf(G, H, C, in, calls, events, cancels) ==
    \/ \E g \in G, u \in in.users, t \in in.timeouts, cbs \in in.callbacks :
          ncalls < calls /\ GetCall(g, u, t, cbs)
    \/ \E g \in G : GetStep(g)
    \/ \E g \in G, e \in in.ctxErrors : CtxDone(g, e)
    \/ \E h \in H, u \in in.users, m \in in.messages :
          nevents < events /\ MessageEvent(h, u, m)
    \/ \E h \in H, u \in in.users, cb \in in.events :
          nevents < events /\ CallbackEvent(h, u, cb)
    \/ \E h \in H : HandlerStep(h)
    \/ \E c \in C, u \in in.users : ncancels < cancels /\ CancelCall(c, u)
    \/ \E c \in C : CancelStep(c)

\* one caller of Get at a time, one handler invocation at a time, one caller of Cancel
Next ==
    NextOf({"g1"}, {"h1"}, {"c1"}, AllInputs, MaxOps - nevents - ncancels,
           MaxOps - ncalls - ncancels, MaxOps - ncalls - nevents)

Spec == Init /\ [][Next]_vars

\* the same program, in shorter behaviours: FairOps operations in all
FairNext ==
    NextOf({"g1"}, {"h1"}, {"c1"}, AllInputs, FairOps - nevents - ncancels,
           FairOps - ncalls - ncancels, FairOps - ncalls - nevents)

\* calls of Get with a timeout, which the clock may or may not reach, and with
\* the endpoint "a", a context that is canceled, a text, a press of the button "a"
OverlapInputs ==
    [users |-> OneUser, timeouts |-> Timeouts \ {0}, callbacks |-> {<< <<FF, "a">> >>},
     ctxErrors |-> {"context canceled"}, messages |-> Messages, events |-> {"cb1"}]

\* two callers of Get with one call each, in behaviours of OverlapEvents events
\* and calls of Cancel in all
OverlapNext ==
    NextOf(Getters, {"h1"}, {"c1"}, OverlapInputs, Cardinality(Getters),
           OverlapEvents - ncancels, OverlapEvents - nevents)

OverlapSpec == Init /\ [][OverlapNext]_vars

\* two handler invocations at a time, in behaviours of RaceOps operations in all
RaceNext ==
    NextOf({"g1"}, Handlers, {"c1"}, AllInputs, RaceOps - nevents - ncancels,
           RaceOps - ncalls - ncancels, RaceOps - ncalls - nevents)

RaceSpec == Init /\ [][RaceNext]_vars

\* the inputs of OverlapInputs, for either of two users and in calls of Get
\* that wait indefinitely
UsersInputs == [OverlapInputs EXCEPT !.users = Users, !.timeouts = {0}]

\* two users served at a time: two callers of Get with one call each, in
\* behaviours of UsersEvents events and calls of Cancel in all
UsersNext ==
    NextOf(Getters, {"h1"}, {"c1"}, UsersInputs, Cardinality(Getters),
           UsersEvents - ncancels, UsersEvents - nevents)

UsersSpec == Init /\ [][UsersNext]_vars

\* time passes: a reading of the clock in the wait loop is later than the last
\* one, which the call records or times out on
ClockAdvances(g) ==
    GetSince(g) /\ (get'[g].elapsed > get[g].elapsed \/ get'[g].err = ErrTimeout)

\* the Go scheduler runs every goroutine that can run, and time passes; nothing
\* makes the callers call or the events arrive
Fairness ==
    /\ WF_vars(GetStep("g1"))
    /\ WF_vars(HandlerStep("h1"))
    /\ WF_vars(CancelStep("c1"))
    /\ SF_vars(ClockAdvances("g1"))

FairSpec == Init /\ [][FairNext]_vars /\ Fairness

(* ---------------------------------------------------------------------- *)
(* C1                                                                      *)
(* ---------------------------------------------------------------------- *)

\* C1: once a Get call for a user has returned and no Get call for the user is
\* outstanding, the registry holds no entry for the user and the storage holds
\* no state for the user.
C1_NoWaitStateSurvives ==
    \A u \in Users :
        ((\E g \in Getters : get[g].pc = "done" /\ get[g].userID = u) /\ ~Outstanding(u))
            => (requests[u] = NilReq /\ storage[u] = Nil)

(* ---------------------------------------------------------------------- *)
(* C2                                                                      *)
(* ---------------------------------------------------------------------- *)

\* the state has been written by the call and the wait loop entered
InLoop(g) == get[g].pc \in {"select", "locked", "since"}

\* nothing has touched the wait of g so far: what the call has registered is
\* still there and its request is not completed
Untouched(g) ==
    /\ get[g].pc # "store" =>
          /\ requests[get[g].userID] = get[g].req
          /\ ~heap[get[g].req].completed
    /\ InLoop(g) => storage[get[g].userID] = stateWaitingInput

\* the only handler invocation or call of Cancel in progress for the user is h,
\* and no other call of Get for the user is
OnlyBusy(u, h, g) ==
    /\ \A o \in Handlers \ {h} : ~(hnd[o].pc # "idle" /\ hnd[o].userID = u)
    /\ \A c \in Cancellers : ~(can[c].pc # "idle" /\ can[c].userID = u)
    /\ \A o \in Getters \ {g} : ~(Calling(o) /\ get[o].userID = u)

\* the text message m1 has just been delivered for the user of g, during an
\* untouched call Get(ctx, U, 0) of g without endpoints, with ctx live
TextDelivered(g, h) ==
    /\ get[g].pc \in {"store", "set", "select", "locked", "since"}
    /\ get[g].timeout = 0 /\ get[g].callback = <<>> /\ get[g].ctxErr = Nil
    /\ Untouched(g)
    /\ hnd[h].pc = "check" /\ hnd[h].kind = "message"
    /\ hnd[h].userID = get[g].userID /\ hnd[h].message = "m1"
    /\ OnlyBusy(get[g].userID, h, g)

\* what takes a call out of the cases C2 is about: its context is done, its write
\* of the state failed, Cancel is called, or another handler invocation or call
\* of Get for the user runs beside it
C2_Excused(g, h) ==
    /\ Calling(g)
    /\ \/ get[g].ctxErr # Nil
       \/ get[g].err = ErrStorage
       \/ ~OnlyBusy(get[g].userID, h, g)

\* the call of g has returned the message m1, not canceled, no callback, nil error
ReturnedText(g) ==
    /\ get[g].pc = "done"
    /\ get[g].response = Response("m1", Nil, FALSE)
    /\ get[g].err = Nil

\* C2 as claimed: a Get(ctx, U, 0) call without endpoints during which one text
\* message for U is delivered (ctx never canceled, no Cancel) eventually returns
\* that message with canceled=false, no callback and a nil error.
C2_TextDeliveredDuringCall ==
    \A n \in 1 .. FairOps :
        (ncalls = n /\ TextDelivered("g1", "h1"))
            ~> \/ ncalls = n /\ ReturnedText("g1")
               \/ ncalls = n /\ C2_Excused("g1", "h1")

\* C2 amended: the same, for a message delivered once the call has written its
\* waiting state.
C2_TextDeliveredWhileWaiting ==
    \A n \in 1 .. FairOps :
        (ncalls = n /\ TextDelivered("g1", "h1") /\ InLoop("g1"))
            ~> \/ ncalls = n /\ ReturnedText("g1")
               \/ ncalls = n /\ C2_Excused("g1", "h1")

\* the message written by the handler is about to be returned by a Get(ctx, U, 0)
C2_Witness ==
    /\ get["g1"].pc = "deferRequests" /\ get["g1"].timeout = 0
    /\ get["g1"].callback = <<>> /\ get["g1"].ctxErr = Nil
    /\ get["g1"].response = Response("m1", Nil, FALSE) /\ get["g1"].err = Nil
    /\ ncancels = 0 /\ nevents = 1 /\ ncalls = 1

(* ---------------------------------------------------------------------- *)
(* C3                                                                      *)
(* ---------------------------------------------------------------------- *)

\* s without its leading and trailing blanks: from its first to its last
\* character that is no blank
C3_Trimmed(s) ==
    LET solid == {i \in 1 .. Len(s) : s[i] \notin Whitespace} IN
    IF solid = {} THEN <<>>
    ELSE SubSeq(s, CHOOSE i \in solid : \A j \in solid : i <= j,
                   CHOOSE i \in solid : \A j \in solid : i >= j)

\* the discriminator tag of a callback event: the explicit unique field, else
\* the first pipe-delimited segment of the data field, trimmed
C3_Tag(cb) ==
    LET bars == {i \in 1 .. Len(Callback[cb].Data) : Callback[cb].Data[i] = "|"}
        cut  == IF bars = {} THEN Len(Callback[cb].Data)
                ELSE (CHOOSE i \in bars : \A j \in bars : i <= j) - 1
    IN  IF Callback[cb].Unique # <<>>
        THEN C3_Trimmed(Callback[cb].Unique)
        ELSE C3_Trimmed(SubSeq(Callback[cb].Data, 1, cut))

\* the tag of the event equals one of the discriminators of the request, trimmed
C3_Matches(r, cb) ==
    \E i \in 1 .. Len(heap[r].callbacks) : C3_Trimmed(heap[r].callbacks[i]) = C3_Tag(cb)

C4_Starts(g) ==
    /\ get[g].pc = "store" /\ get[g].timeout > 0 /\ get[g].ctxErr = Nil
    /\ ~Busy(get[g].userID)
    /\ \A o \in Getters \ {g} : ~(Calling(o) /\ get[o].userID = get[g].userID)

\* what takes the call out of the cases C4 is about: its context is done, an
\* event or a Cancel for the user arrives, the write of the state fails
C4_Excused(g) ==
    /\ Calling(g)
    /\ \/ get[g].ctxErr # Nil
       \/ get[g].err = ErrStorage
       \/ Busy(get[g].userID)
       \/ \E o \in Getters \ {g} : Calling(o) /\ get[o].userID = get[g].userID

\* the call has returned ErrTimeout with an empty Response, and neither the
\* registry nor the storage holds an entry for its user
C4_TimedOutClean(g) ==
    /\ get[g].pc = "done" /\ get[g].err = ErrTimeout /\ get[g].response = NoResponse
    /\ requests[get[g].userID] = NilReq /\ storage[get[g].userID] = Nil

\* C4: a Get(ctx, U, t) call with t > 0, with ctx never canceled, no Cancel(U)
\* and no event for U, eventually returns ErrTimeout with an empty Response,
\* and then neither the registry nor the storage holds an entry for U.
C4_Timeout ==
    \A n \in 1 .. FairOps :
        (ncalls = n /\ C4_Starts("g1"))
            ~> \/ ncalls = n /\ C4_TimedOutClean("g1")
               \/ ncalls = n /\ C4_Excused("g1")

\* a call with t > 0 that nothing has touched has returned ErrTimeout
C4_Witness ==
    /\ C4_TimedOutClean("g1") /\ nevents = 0 /\ ncancels = 0 /\ ncalls = 1

(* ---------------------------------------------------------------------- *)
(* C5                                                                      *)
(* ---------------------------------------------------------------------- *)

\* Cancel(U) has loaded the request of the call Get(ctx, U, 0) of g, which is
\* outstanding with ctx live, and no event for U is being handled
C5_CancelCalled(g, c) ==
    /\ can[c].pc = "lock" /\ can[c].req = get[g].req
    /\ get[g].pc \in {"set", "select", "locked", "since"}
    /\ get[g].timeout = 0 /\ get[g].ctxErr = Nil
    /\ ~heap[get[g].req].completed
    /\ \A h \in Handlers : ~(hnd[h].pc # "idle" /\ hnd[h].userID = get[g].userID)

\* what takes the call out of the cases C5 is about
C5_Excused(g) ==
    /\ Calling(g)
    /\ \/ get[g].ctxErr # Nil
       \/ get[g].err = ErrStorage
       \/ \E h \in Handlers : hnd[h].pc # "idle" /\ hnd[h].userID = get[g].userID

\* the call has returned canceled=true with a nil error
C5_ReturnedCanceled(g) ==
    get[g].pc = "done" /\ get[g].response.Canceled /\ get[g].err = Nil

\* every call of Get in progress for the user of c is the one whose request c loaded
C5_SameCall(c) ==
    \A g \in Getters :
        (Calling(g) /\ get[g].userID = can[c].userID) => get[g].req = can[c].req

\* C5 as claimed: Cancel(U) called while a Get(ctx, U, 0) call is outstanding, its
\* request being the registry entry, makes the call return canceled=true with a
\* nil error, and when Cancel returns the state and the registry entry of U are
\* removed.
C5_CancelOutstanding ==
    /\ \A n \in 1 .. FairOps :
          (ncalls = n /\ C5_CancelCalled("g1", "c1"))
              ~> \/ ncalls = n /\ C5_ReturnedCanceled("g1")
                 \/ ncalls = n /\ C5_Excused("g1")
    /\ [][\A c \in Cancellers :
             (can[c].pc = "requestsDelete" /\ can'[c].pc = "idle" /\ C5_SameCall(c))
                 => (storage'[can[c].userID] = Nil /\ requests'[can[c].userID] = NilReq)]_vars

\* C5 amended: the same, for a Cancel(U) called while the call is in its wait
\* loop, its waiting state written.
C5_CancelWaiting ==
    /\ \A n \in 1 .. FairOps :
          (ncalls = n /\ C5_CancelCalled("g1", "c1") /\ InLoop("g1"))
              ~> \/ ncalls = n /\ C5_ReturnedCanceled("g1")
                 \/ ncalls = n /\ C5_Excused("g1")
    /\ [][\A c \in Cancellers :
             (/\ can[c].pc = "requestsDelete" /\ can'[c].pc = "idle"
              /\ can[c].waiting /\ C5_SameCall(c))
                 => (storage'[can[c].userID] = Nil /\ requests'[can[c].userID] = NilReq)]_vars

\* Cancel has returned while the canceled call is still in its wait loop, and the
\* state and the registry entry of the user are gone
C5_Witness ==
    /\ InLoop("g1") /\ get["g1"].timeout = 0
    /\ heap[get["g1"].req].canceled
    /\ can["c1"].pc = "idle" /\ ncancels = 1 /\ nevents = 0
    /\ storage[get["g1"].userID] = Nil /\ requests[get["g1"].userID] = NilReq

(* ---------------------------------------------------------------------- *)
(* C6                                                                      *)
(* ---------------------------------------------------------------------- *)

\* the call has returned canceled=true and the error e
C6_ReturnedCtxErr(g, e) ==
    get[g].pc = "done" /\ get[g].response = Response(Nil, Nil, TRUE) /\ get[g].err = e

\* C6: a call of Get that comes to a poll iteration with its context done
\* returns canceled=true and the context's error, whatever its timeout
C6_ContextDone ==
    \A n \in 1 .. FairOps, e \in CtxErrors :
        (ncalls = n /\ get["g1"].pc = "select" /\ get["g1"].ctxErr = e)
            ~> (ncalls = n /\ C6_ReturnedCtxErr("g1", e))

\* a call with a timeout is about to return the deadline error of its context,
\* its request completed by an event meanwhile
C6_Witness ==
    /\ get["g1"].pc = "deferRequests" /\ get["g1"].timeout > 0
    /\ get["g1"].err = "context deadline exceeded"
    /\ get["g1"].response = Response(Nil, Nil, TRUE)
    /\ heap[get["g1"].req].completed

(* ---------------------------------------------------------------------- *)
(* C7                                                                      *)
(* ---------------------------------------------------------------------- *)

\* C7: a handler that takes up an event for a user for whom no call of Get is
\* outstanding returns nil at once, and the registry, the storage and every
\* request stay as they are.
C7_NoWaitNoEffect ==
    [][\A h \in Handlers :
          (/\ hnd[h].pc = "check"
           /\ ~Outstanding(hnd[h].userID)
           /\ hnd'[h] # hnd[h])
          => (/\ hnd'[h] = HandlerIdle
              /\ UNCHANGED <<requests, storage, heap>>)]_vars

\* an event with a text arrives for a user whose call of Get has returned with
\* an answer
C7_Witness ==
    /\ hnd["h1"].pc = "check" /\ hnd["h1"].message # Nil
    /\ get["g1"].pc = "done" /\ get["g1"].userID = hnd["h1"].userID
    /\ get["g1"].err = Nil
    /\ ~Outstanding(hnd["h1"].userID)

(* ---------------------------------------------------------------------- *)
(* C8                                                                      *)
(* ---------------------------------------------------------------------- *)

\* C8: no call of Get returns a Response with both Message and Callback set, and
\* no completed request has both message and callback set.
C8_MessageOrCallback ==
    /\ \A g \in Getters :
          get[g].pc = "done" => (get[g].response.Message = Nil \/ get[g].response.Callback = Nil)
    /\ \A r \in ReqIds :
          heap[r].completed => (heap[r].message = Nil \/ heap[r].callback = Nil)

(* ---------------------------------------------------------------------- *)
(* C9                                                                      *)
(* ---------------------------------------------------------------------- *)

\* C9: the request of a call of Get without callback endpoints never holds a
\* callback, and the call never returns one.
C9_NoWildcardCallback ==
    \A g \in Getters :
        /\ (Calling(g) /\ get[g].callback = <<>> /\ get[g].req # NilReq)
              => heap[get[g].req].callback = Nil
        /\ (get[g].pc \in {"deferStorage", "deferRequests"} /\ get[g].callback = <<>>)
              => get[g].response.Callback = Nil

\* the callback handler has reached, with an event that has a unique, the
\* request of a waiting call without endpoints
C9_Witness ==
    /\ InLoop("g1") /\ get["g1"].callback = <<>>
    /\ hnd["h1"].kind = "callback" /\ hnd["h1"].pc = "write"
    /\ hnd["h1"].callback = "cb1"
    /\ hnd["h1"].req = get["g1"].req
    /\ ~heap[get["g1"].req].completed

(* ---------------------------------------------------------------------- *)
(* C10                                                                     *)
(* ---------------------------------------------------------------------- *)

\* the request of the call of g, in progress, is not the registry entry of its user
C10_Orphaned(g) ==
    /\ Calling(g) /\ get[g].req # NilReq
    /\ requests[get[g].userID] # get[g].req

\* the request of g is orphaned and no handler and no Cancel has got hold of it:
\* whatever event or Cancel there is has come, or comes, after the overwrite
C10_OutOfReach(g) ==
    /\ C10_Orphaned(g)
    /\ \A h \in Handlers : hnd[h].req # get[g].req
    /\ \A c \in Cancellers : can[c].req # get[g].req
    /\ ~heap[get[g].req].completed

\* C10: the Store of a second call of Get for a user makes its request the
\* registry entry, in the place of the request of a first call still in
\* progress; a request orphaned so stays out of the registry and out of the
\* reach of handlers and of Cancel, nothing writes to it, and its call returns
\* with ErrTimeout or with the error of its context only.
C10_SecondGetOrphansFirst ==
    [][\A g \in Getters :
          /\ \A o \in Getters \ {g} :
                (/\ Calling(g) /\ get[g].req # NilReq
                 /\ get[o].pc = "store" /\ get'[o].pc = "set"
                 /\ get[o].userID = get[g].userID)
                => (/\ requests'[get[g].userID] = get'[o].req
                    /\ get'[o].req # get[g].req
                    /\ get'[g] = get[g]
                    /\ C10_Orphaned(g)')
          /\ (C10_OutOfReach(g) /\ Calling(g)')
                => (/\ C10_OutOfReach(g)'
                    /\ heap'[get[g].req] = heap[get[g].req])
          /\ (C10_OutOfReach(g) /\ get[g].pc # "deferStorage" /\ get'[g].pc = "deferStorage")
                => (/\ get'[g].err \in {ErrTimeout} \cup CtxErrors
                    /\ get'[g].response.Message = Nil
                    /\ get'[g].response.Callback = Nil)]_vars

\* the first call waits on its orphaned request, not completed, while a text
\* that came after the overwrite has completed the request of the second call
C10_Witness ==
    /\ C10_OutOfReach("g1") /\ InLoop("g1")
    /\ InLoop("g2") /\ get["g2"].userID = get["g1"].userID
    /\ requests[get["g2"].userID] = get["g2"].req
    /\ heap[get["g2"].req].completed /\ heap[get["g2"].req].message = "m1"
    /\ hnd["h1"].pc = "delete" /\ hnd["h1"].req = get["g2"].req

(* ---------------------------------------------------------------------- *)
(* C11                                                                     *)
(* ---------------------------------------------------------------------- *)

\* Cancel has been called, and every call of it has returned
C11_CancelReturned == ncancels > 0 /\ \A c \in Cancellers : can[c].pc = "idle"

\* C11: once every call of Cancel has returned, a call of Get registers a new
\* request, neither canceled nor completed, as the entry of its user, and as
\* long as no further Cancel is called no request of a call in progress is
\* marked canceled, none is completed but by a handler, and the registry and
\* the storage change only by a step of Get or of a handler.
C11_FreshGetUntouched ==
    [][\A g \in Getters :
          /\ (C11_CancelReturned /\ get[g].pc = "store" /\ get'[g].pc = "set")
                => (/\ heap'[get'[g].req] = pendingRequest(get[g].callback)
                    /\ requests'[get[g].userID] = get'[g].req)
          /\ (/\ C11_CancelReturned /\ C11_CancelReturned'
              /\ Calling(g) /\ get[g].req # NilReq /\ get'[g].req = get[g].req)
                => (/\ heap'[get[g].req].canceled = heap[get[g].req].canceled
                    /\ (heap'[get[g].req] # heap[get[g].req] => hnd' # hnd)
                    /\ (requests' # requests \/ storage' # storage)
                          => (get' # get \/ hnd' # hnd))]_vars

\* a second call of Get, made after Cancel ended the first, waits with its
\* request untouched, registered and its waiting state in the storage
C11_Witness ==
    /\ C11_CancelReturned /\ ncalls = 2 /\ nevents = 0
    /\ InLoop("g1")
    /\ heap[get["g1"].req] = pendingRequest(get["g1"].callback)
    /\ requests[get["g1"].userID] = get["g1"].req
    /\ storage[get["g1"].userID] = stateWaitingInput

(* ---------------------------------------------------------------------- *)
(* C12                                                                     *)
(* ---------------------------------------------------------------------- *)

\* C12: a call of Get whose write of the waiting state fails takes the error of
\* the storage, and its next step is its return, with that error and an empty
\* Response, canceled=false, the registry holding no entry for the user; it
\* never comes to the wait loop.
C12_StorageWriteFails ==
    [][\A g \in Getters :
          /\ (get[g].pc = "set" /\ get'[g].pc # "set")
                => \/ /\ get'[g].pc = "select" /\ get'[g].err = Nil
                       /\ storage'[get[g].userID] = stateWaitingInput
                   \/ /\ get'[g].pc = "failDelete" /\ get'[g].err = ErrStorage
                       /\ storage' = storage
          /\ (get[g].pc = "failDelete" /\ get'[g].pc # "failDelete")
                => (/\ get'[g].pc = "done"
                    /\ get'[g].err = ErrStorage
                    /\ get'[g].response = Response(Nil, Nil, FALSE)
                    /\ requests'[get[g].userID] = NilReq
                    /\ storage' = storage)
          /\ (get[g].err = ErrStorage /\ Calling(g)) => get[g].pc = "failDelete"]_vars

\* the second call of a caller has returned the error of the storage, and the
\* registry holds no entry for the user
C12_Witness ==
    /\ get["g1"].pc = "done" /\ get["g1"].err = ErrStorage
    /\ get["g1"].response = NoResponse
    /\ requests[get["g1"].userID] = NilReq
    /\ ncalls = 2

(* ---------------------------------------------------------------------- *)
(* C13                                                                     *)
(* ---------------------------------------------------------------------- *)

\* the handler h takes its step on the request, not completed, of the call of g
\* that waits in its loop
C13_HandlerActs(g, h) ==
    /\ InLoop(g) /\ hnd[h].req = get[g].req /\ ~heap[get[g].req].completed
    /\ hnd[h].pc = "write" /\ hnd'[h] # hnd[h]

\* C13 as claimed: the wait of a call with callback endpoints is completed only
\* by a callback whose tag matches one of them, not by a text; the wait of a call
\* without endpoints is completed by any text.
C13_MatchingRule ==
    [][\A g \in Getters, h \in Handlers :
          C13_HandlerActs(g, h)
          => IF get[g].callback # <<>>
             THEN heap'[get[g].req].completed
                     => (hnd[h].kind = "callback" /\ C3_Matches(get[g].req, hnd[h].callback))
             ELSE hnd[h].kind = "message"
                     => (/\ heap'[get[g].req].completed
                         /\ heap'[get[g].req].message = hnd[h].message)]_vars

\* C13 amended: a callback completes the wait only of a call with endpoints of
\* which its tag matches one; a text completes the wait of any call, with
\* endpoints or without.
C13_MatchingRuleTextAlways ==
    [][\A g \in Getters, h \in Handlers :
          C13_HandlerActs(g, h)
          => IF hnd[h].kind = "callback"
             THEN heap'[get[g].req] # heap[get[g].req]
                     => (/\ get[g].callback # <<>>
                         /\ C3_Matches(get[g].req, hnd[h].callback))
             ELSE /\ heap'[get[g].req].completed
                  /\ heap'[get[g].req].message = hnd[h].message
                  /\ heap'[get[g].req].callback = Nil]_vars

\* a text has completed the wait of a call with callback endpoints
C13_Witness ==
    /\ InLoop("g1") /\ get["g1"].callback # <<>>
    /\ heap[get["g1"].req].completed
    /\ heap[get["g1"].req].message = "m1"
    /\ heap[get["g1"].req].callback = Nil
    /\ hnd["h1"].kind = "message" /\ hnd["h1"].pc = "delete"
    /\ hnd["h1"].req = get["g1"].req

(* ---------------------------------------------------------------------- *)
(* C14                                                                     *)
(* ---------------------------------------------------------------------- *)

\* C14: once an event has completed the request of a call of Get, no step of a
\* handler changes its message or its callback: the first event is the one the
\* call returns.
C14_CompletedKeepsPayload ==
    [][\A g \in Getters :
          (/\ Calling(g) /\ get[g].req # NilReq /\ get'[g].req = get[g].req
           /\ heap[get[g].req].completed /\ ~heap[get[g].req].canceled
           /\ hnd' # hnd)
          => (/\ heap'[get[g].req].message = heap[get[g].req].message
              /\ heap'[get[g].req].callback = heap[get[g].req].callback)]_vars

(* ---------------------------------------------------------------------- *)
(* C15                                                                     *)
(* ---------------------------------------------------------------------- *)

\* C15: a call of Cancel that finds no entry of its user in the registry returns
\* at once, and the registry, the storage and every request stay as they are; so
\* does a second call after it.
C15_CancelNoEntry ==
    [][\A c \in Cancellers :
          (/\ can[c].pc = "load" /\ requests[can[c].userID] = NilReq
           /\ can'[c] # can[c])
          => (/\ can'[c] = CancelIdle
              /\ UNCHANGED <<requests, storage, heap, get, hnd>>)]_vars

\* Cancel is called for a user without entry in the registry whose call of Get
\* waits with its waiting state in the storage
C15_Witness ==
    /\ can["c1"].pc = "load" /\ requests[can["c1"].userID] = NilReq
    /\ storage[can["c1"].userID] = stateWaitingInput
    /\ InLoop("g1") /\ get["g1"].userID = can["c1"].userID
    /\ ncancels = 2

(* ---------------------------------------------------------------------- *)
(* C16                                                                     *)
(* ---------------------------------------------------------------------- *)

\* C16: a call of Get with timeout 0 never has ErrTimeout as its error; when it
\* leaves its loop it is with the error of its context and canceled=true, or
\* with a nil error and its request completed, by an event or by Cancel; before
\* the loop it leaves only with the error of the storage.
C16_NoTimeoutWithoutTimeout ==
    \A g \in Getters :
        (Calling(g) /\ get[g].timeout = 0)
        => /\ get[g].err # ErrTimeout
           /\ get[g].pc \in {"deferStorage", "deferRequests"}
                 => \/ get[g].err \in CtxErrors /\ get[g].response = Response(Nil, Nil, TRUE)
                    \/ get[g].err = Nil /\ heap[get[g].req].completed
           /\ get[g].pc = "failDelete" => get[g].err = ErrStorage

\* a call with timeout 0 leaves its loop canceled by Cancel
C16_Witness ==
    /\ get["g1"].pc = "deferStorage" /\ get["g1"].timeout = 0
    /\ get["g1"].err = Nil /\ get["g1"].response = Response(Nil, Nil, TRUE)
    /\ heap[get["g1"].req].canceled

(* ---------------------------------------------------------------------- *)
(* C17                                                                     *)
(* ---------------------------------------------------------------------- *)

\* C17: a poll of Get looks at its context first, then at the completion of its
\* request, then at the clock.  With the context done it returns canceled=true,
\* the error of the context and neither message nor callback, also when the
\* request is completed; else with the request completed it returns what the
\* request holds and a nil error, whatever the clock; only else it may return
\* ErrTimeout.
C17_PollOrder ==
    [][\A g \in Getters :
          /\ (get[g].pc = "select" /\ get'[g].pc # "select")
                => IF get[g].ctxErr # Nil
                   THEN /\ get'[g].pc = "deferStorage"
                        /\ get'[g].response = Response(Nil, Nil, TRUE)
                        /\ get'[g].err = get[g].ctxErr
                   ELSE get'[g].pc = "locked"
          /\ (get[g].pc = "locked" /\ get'[g].pc # "locked")
                => IF heap[get[g].req].completed
                   THEN /\ get'[g].pc = "deferStorage"
                        /\ get'[g].response.Message = heap[get[g].req].message
                        /\ get'[g].response.Callback = heap[get[g].req].callback
                        /\ get'[g].response.Canceled = heap[get[g].req].canceled
                        /\ get'[g].err = Nil
                   ELSE get'[g].pc = "since"
          /\ (get[g].pc = "since" /\ get'[g].pc # "since")
                => \/ get'[g].pc = "select"
                   \/ /\ get'[g].pc = "deferStorage" /\ get[g].timeout > 0
                      /\ get'[g].err = ErrTimeout /\ get'[g].response = NoResponse]_vars

\* a call whose clock had come to its timeout returns the text that completed its
\* request, with a nil error
C17_Witness ==
    /\ get["g1"].pc = "deferStorage"
    /\ get["g1"].timeout > 0 /\ get["g1"].elapsed = get["g1"].timeout
    /\ get["g1"].err = Nil /\ get["g1"].response = Response("m1", Nil, FALSE)

(* ---------------------------------------------------------------------- *)
(* C18                                                                     *)
(* ---------------------------------------------------------------------- *)

\* C18: the critical section of Cancel sets canceled and completed of the
\* request it loaded, completed already or not, and leaves its message and its
\* callback; a call of Get that then finds its request completed returns
\* canceled=true with a nil error and the message and callback the request holds.
C18_CancelUnconditional ==
    [][/\ \A c \in Cancellers :
             (can[c].pc = "lock" /\ can'[c].pc # "lock")
             => (/\ heap'[can[c].req].canceled /\ heap'[can[c].req].completed
                 /\ heap'[can[c].req].message = heap[can[c].req].message
                 /\ heap'[can[c].req].callback = heap[can[c].req].callback)
       /\ \A g \in Getters :
             (get[g].pc = "locked" /\ get'[g].pc # "locked" /\ heap[get[g].req].canceled)
             => (/\ get'[g].pc = "deferStorage"
                 /\ get'[g].err = Nil
                 /\ get'[g].response =
                       Response(heap[get[g].req].message, heap[get[g].req].callback, TRUE))]_vars

\* Cancel has marked a request that a text had completed, and the call returns
\* canceled=true with that text
C18_Witness ==
    /\ get["g1"].pc = "deferStorage"
    /\ get["g1"].err = Nil /\ get["g1"].response = Response("m1", Nil, TRUE)
    /\ hnd["h1"].pc = "idle" /\ nevents = 1 /\ ncancels = 1 /\ ncalls = 1

(* ---------------------------------------------------------------------- *)
(* C19                                                                     *)
(* ---------------------------------------------------------------------- *)

\* the requests the registry or a goroutine refers to
C19_Live == Live(requests, get, hnd, can)

\* C19: every request that is canceled is completed; a request stays completed,
\* and canceled, as long as it lives; and a call of Get leaves its loop with
\* canceled=true and a nil error only on a request marked canceled.
C19_CanceledIsCompleted ==
    /\ [](\A r \in ReqIds : heap[r].canceled => heap[r].completed)
    /\ [](\A g \in Getters :
             (/\ get[g].pc \in {"deferStorage", "deferRequests"}
              /\ get[g].response.Canceled /\ get[g].err = Nil)
             => heap[get[g].req].canceled)
    /\ [][\A r \in C19_Live \cap C19_Live' :
             /\ heap[r].completed => heap'[r].completed
             /\ heap[r].canceled => heap'[r].canceled]_vars

\* a call with a timeout leaves its loop with canceled=true and a nil error, its
\* request marked by Cancel
C19_Witness ==
    /\ get["g1"].pc = "deferRequests" /\ get["g1"].timeout > 0
    /\ get["g1"].response.Canceled /\ get["g1"].err = Nil
    /\ heap[get["g1"].req].canceled /\ heap[get["g1"].req].completed

(* ---------------------------------------------------------------------- *)
(* C20                                                                     *)
(* ---------------------------------------------------------------------- *)

\* C20: while a call of Get is in its wait loop, its request not completed, and
\* no other call of Get for its user is in progress, the storage holds the
\* waiting state of the user and the registry maps the user to the request of
\* the call.
C20_WaitReachable ==
    \A g \in Getters :
        (/\ InLoop(g) /\ ~heap[get[g].req].completed
         /\ \A o \in Getters \ {g} : ~(Calling(o) /\ get[o].userID = get[g].userID))
        => (/\ storage[get[g].userID] = stateWaitingInput
            /\ requests[get[g].userID] = get[g].req)

(* ---------------------------------------------------------------------- *)
(* C21                                                                     *)
(* ---------------------------------------------------------------------- *)

\* the step is one of Get, of a handler or of Cancel, executed for the user u:
\* the goroutine that moves was called for u, or is called for u by the step
C21_StepFor(u) ==
    \/ \E g \in Getters :
          /\ get'[g] # get[g]
          /\ u = IF Calling(g) THEN get[g].userID ELSE get'[g].userID
    \/ \E h \in Handlers :
          /\ hnd'[h] # hnd[h]
          /\ u = IF hnd[h].pc # "idle" THEN hnd[h].userID ELSE hnd'[h].userID
    \/ \E c \in Cancellers :
          /\ can'[c] # can[c]
          /\ u = IF can[c].pc # "idle" THEN can[c].userID ELSE can'[c].userID

\* the pending requests of the user v: the one the registry holds for v and
\* those the calls of Get, the handlers and the calls of Cancel for v hold
C21_RequestsOf(v) ==
    ({requests[v]} \cup {get[g].req : g \in {o \in Getters : Calling(o) /\ get[o].userID = v}}
        \cup {hnd[h].req : h \in {o \in Handlers : hnd[o].userID = v}}
        \cup {can[c].req : c \in {o \in Cancellers : can[o].userID = v}}) \ {NilReq}

\* C21: for users U # V, every step of Get, of Cancel, of the message handler
\* and of the callback handler executed for U leaves the registry entry of V,
\* the state of V in the storage and the fields of the pending requests of V
\* unchanged, and with them the calls of Get in progress for V, what they have
\* read and what they are to return.
C21_OtherUserUntouched ==
    [][\A u \in Users, v \in Users :
          (u # v /\ C21_StepFor(u))
          => /\ requests'[v] = requests[v]
             /\ storage'[v] = storage[v]
             /\ \A r \in C21_RequestsOf(v) : heap'[r] = heap[r]
             /\ \A g \in Getters :
                   (Calling(g) /\ get[g].userID = v) => get'[g] = get[g]]_vars

\* a call of Get for u2 waits, its wait intact, when the handler has delivered
\* a text to the call of Get for u1 and is about to clear the state of u1
C21_Witness ==
    /\ hnd["h1"].pc = "delete" /\ hnd["h1"].userID = "u1"
    /\ get["g1"].userID = "u1" /\ InLoop("g1")
    /\ hnd["h1"].req = get["g1"].req /\ heap[get["g1"].req].completed
    /\ get["g2"].userID = "u2" /\ InLoop("g2")
    /\ requests["u2"] = get["g2"].req /\ storage["u2"] = stateWaitingInput
    /\ ~heap[get["g2"].req].completed

====
